---- MODULE Spec2Model ----
(***************************************************************************)
(* A model of ustc-get-grade: the get_grade pipeline of src/lib.rs (login, *)
(* semester catalog, two joined grade-list requests, extraction) and the   *)
(* polling loop of src/main.rs (run and main).                             *)
(*                                                                         *)
(* Conventions.  An Option is a record with a field k: None has            *)
(* k = "none", Some(x) has k = "some" and the payload in v.  A JSON value  *)
(* (serde_json::Value) is a record tagged by k: "num", "str", "arr", "obj".*)
(* An f64 is held in tenths (3.5 is 35), which is exact for every number   *)
(* the model draws.                                                        *)
(***************************************************************************)
EXTENDS Integers, Sequences, FiniteSets, TLC

\* ------------------------------------------------------------------ bounds

\* most entries of the "semesters" array of a filtered payload
MaxSems == 2
\* most course entries in a filtered payload, over all its semesters
MaxCourses == 2

\* ------------------------------------------------------------ Option, JSON

None == [k |-> "none"]
Some(x) == [k |-> "some", v |-> x]
IsNone(o) == o.k = "none"

\* serde_json::Number: PosInt(u64), NegInt(i64) or Float(f64); n is the
\* integer for the first two and the value in tenths for a Float.
JUInt(n) == [k |-> "num", kind |-> "u64", n |-> n]
JNInt(n) == [k |-> "num", kind |-> "i64", n |-> n]
JFloat(tenths) == [k |-> "num", kind |-> "f64", n |-> tenths]
JStr(s) == [k |-> "str", s |-> s]
JArr(a) == [k |-> "arr", a |-> a]
JObj(o) == [k |-> "obj", o |-> o]

\* A response body that is not JSON at all.
BadText == [k |-> "badtext"]

\* serde_json::from_str(&text).ok(): a body is held as the tree it parses to.
from_str(text) == IF text.k = "badtext" THEN None ELSE Some(text)

\* Value::get(key): Some only on an object that has the key.
Get(val, key) ==
  IF val.k = "obj" /\ key \in DOMAIN val.o THEN Some(val.o[key]) ELSE None

\* Value::as_f64: any number, an integer converted (tenths here).
as_f64(val) ==
  IF val.k # "num" THEN None
  ELSE IF val.kind = "f64" THEN Some(val.n) ELSE Some(10 * val.n)

\* Value::as_u64: a non-negative integer number only.
as_u64(val) == IF val.k = "num" /\ val.kind = "u64" THEN Some(val.n) ELSE None

\* Value::as_str
as_str(val) == IF val.k = "str" THEN Some(val.s) ELSE None

\* Value::as_array
as_array(val) == IF val.k = "arr" THEN Some(val.a) ELSE None

\* v.get(key)?.as_X()? in one step
GetF64(val, key) == LET g == Get(val, key) IN IF IsNone(g) THEN None ELSE as_f64(g.v)
GetU64(val, key) == LET g == Get(val, key) IN IF IsNone(g) THEN None ELSE as_u64(g.v)
GetStr(val, key) == LET g == Get(val, key) IN IF IsNone(g) THEN None ELSE as_str(g.v)
GetArr(val, key) == LET g == Get(val, key) IN IF IsNone(g) THEN None ELSE as_array(g.v)

\* HashMap::get
MapGet(m, key) == IF key \in DOMAIN m THEN Some(m[key]) ELSE None

\* ---------------------------------------------------------- extract_grade

\* The closure of lib.rs:122-128: one course entry to (name, score, credit).
CourseTriple(s) ==
  LET n == GetStr(s, "courseNameCh")
      g == GetStr(s, "scoreCh")
      c == GetF64(s, "credits")
  IN  IF IsNone(n) THEN None
      ELSE IF IsNone(g) THEN None
      ELSE IF IsNone(c) THEN None
      ELSE Some(<<n.v, g.v, c.v>>)

\* CollectCourses as a filter_map would have it: a malformed entry is skipped.
RECURSIVE CollectCoursesSkipping(_)
CollectCoursesSkipping(arr) ==
  IF arr = <<>> THEN Some(<<>>)
  ELSE LET h == CourseTriple(Head(arr))
           t == CollectCoursesSkipping(Tail(arr))
       IN  IF IsNone(h) THEN t ELSE Some(<<h.v>> \o t.v)

\* .map(closure).collect::<Option<Vec<_>>>(): None at the first None.
RECURSIVE CollectCourses(_)
CollectCourses(arr) ==
  IF arr = <<>> THEN Some(<<>>)
  ELSE LET h == CourseTriple(Head(arr))
       IN  IF IsNone(h) THEN None
           ELSE LET t == CollectCourses(Tail(arr))
                IN  IF IsNone(t) THEN None ELSE Some(<<h.v>> \o t.v)

\* One iteration of the for loop of lib.rs:116-131: Some((name, score)).
SemesterPair(s, sem_map) ==
  LET id == GetU64(s, "id")
  IN  IF IsNone(id) THEN None
      ELSE LET name == MapGet(sem_map, id.v)
           IN  IF IsNone(name) THEN None
               ELSE LET arr == GetArr(s, "scores")
                    IN  IF IsNone(arr) THEN None
                        ELSE LET score == CollectCourses(arr.v)
                             IN  IF IsNone(score) THEN None
                                 ELSE Some(<<name.v, score.v>>)

\* ScoresLoop with each pair inserted at the front of `scores`
RECURSIVE ScoresLoopFront(_, _, _)
ScoresLoopFront(arr, sem_map, scores) ==
  IF arr = <<>> THEN Some(scores)
  ELSE LET p == SemesterPair(Head(arr), sem_map)
       IN  IF IsNone(p) THEN None
           ELSE ScoresLoopFront(Tail(arr), sem_map, <<p.v>> \o scores)

\* The for loop of lib.rs:115-131, `scores` the vector pushed so far.
RECURSIVE ScoresLoop(_, _, _)
ScoresLoop(arr, sem_map, scores) ==
  IF arr = <<>> THEN Some(scores)
  ELSE LET p == SemesterPair(Head(arr), sem_map)
       IN  IF IsNone(p) THEN None
           ELSE ScoresLoop(Tail(arr), sem_map, Append(scores, p.v))

\* MkGrade with the two averages assigned crosswise
MkGradeCrossed(gpa, sem_gpa, credits, scores) ==
  [gpa |-> sem_gpa, sem_gpa |-> gpa, credits |-> credits, scores |-> scores]

\* lib.rs:133-138
MkGrade(gpa, sem_gpa, credits, scores) ==
  [gpa |-> gpa, sem_gpa |-> sem_gpa, credits |-> credits, scores |-> scores]

\* lib.rs:106-139
extract_grade(allText, semText, sem_map) ==
  LET all == from_str(allText)
      sem == from_str(semText)
  IN  IF IsNone(all) THEN None
      ELSE IF IsNone(sem) THEN None
      ELSE LET overview == Get(all.v, "overview")
           IN  IF IsNone(overview) THEN None
               ELSE LET gpa == GetF64(overview.v, "gpa")
                    IN  IF IsNone(gpa) THEN None
                        ELSE LET semOverview == Get(sem.v, "overview")
                             IN  IF IsNone(semOverview) THEN None
                                 ELSE LET sem_gpa == GetF64(semOverview.v, "gpa")
                                          credits == GetU64(overview.v, "passedCredits")
                                          arr == GetArr(sem.v, "semesters")
                                      IN  IF IsNone(sem_gpa) THEN None
                                          ELSE IF IsNone(credits) THEN None
                                          ELSE IF IsNone(arr) THEN None
                                          ELSE LET scores == ScoresLoop(arr.v, sem_map, <<>>)
                                               IN  IF IsNone(scores) THEN None
                                                   ELSE Some(MkGrade(gpa.v, sem_gpa.v,
                                                                     credits.v, scores.v))

\* ------------------------------------------------------ the semester catalog

\* struct Semesters (lib.rs:40-46); nameEn, schoolYear and current are read
\* by no code and are left out.
Semesters(id, nameZh) == [id |-> id, nameZh |-> nameZh]

\* lib.rs:102: sems.iter().map(|s| (s.id, s.nameZh.clone())).collect(); a later
\* entry with the same id replaces an earlier one.
RECURSIVE SemMapFrom(_, _)
SemMapFrom(sems, m) ==
  IF sems = <<>> THEN m
  ELSE LET s == Head(sems)
       IN  SemMapFrom(Tail(sems),
             [i \in DOMAIN m \cup {s.id} |-> IF i = s.id THEN s.nameZh ELSE m[i]])

SemMap(sems) == SemMapFrom(sems, <<>>)

\* ------------------------------------------------- payloads the model draws

\* Course entries of a "scores" array: two well-formed ones (credits a float,
\* credits an integer) and entries with a field missing or of the wrong type.
CourseAlgebra ==
  JObj([courseNameCh |-> JStr("Algebra"), scoreCh |-> JStr("A"), credits |-> JFloat(40)])
CoursePhysics ==
  JObj([courseNameCh |-> JStr("Physics"), scoreCh |-> JStr("B+"), credits |-> JUInt(3)])
CourseNoCredits == JObj([courseNameCh |-> JStr("Algebra"), scoreCh |-> JStr("A")])
CourseCreditsStr ==
  JObj([courseNameCh |-> JStr("Algebra"), scoreCh |-> JStr("A"), credits |-> JStr("4")])
CourseNoName == JObj([scoreCh |-> JStr("A"), credits |-> JFloat(40)])
CourseScoreNum ==
  JObj([courseNameCh |-> JStr("Algebra"), scoreCh |-> JUInt(95), credits |-> JFloat(40)])

GoodCourses == {CourseAlgebra, CoursePhysics}
BadCourses == {CourseNoCredits, CourseCreditsStr, CourseNoName, CourseScoreNum}
CourseEntries == GoodCourses \cup BadCourses

\* Semester ids a payload may name; the catalogs of the model hold 1 and 2.
PayloadIds == {1, 2, 3}

\* Semester entries that fail before their courses are looked at.
BrokenSemesters ==
  { JObj([scores |-> JArr(<<>>)]),
    JObj([id |-> JStr("1"), scores |-> JArr(<<>>)]),
    JObj([id |-> JNInt(-1), scores |-> JArr(<<>>)]),
    JObj([id |-> JUInt(1)]) }

\* Sequences over S of length at most n
RECURSIVE SeqsUpTo(_, _)
SeqsUpTo(S, n) ==
  IF n = 0 THEN {<<>>}
  ELSE LET shorter == SeqsUpTo(S, n - 1)
       IN  shorter \cup {Append(q, x) : q \in shorter, x \in S}

\* Semester entries with an id of PayloadIds and at most `budget` course
\* entries drawn from C, and the semester entries of B
SemesterEntries(C, B, budget) ==
  {JObj([id |-> JUInt(i), scores |-> JArr(cs)]) :
      i \in PayloadIds, cs \in SeqsUpTo(C, budget)}
  \cup B

CoursesIn(entry) ==
  IF "scores" \in DOMAIN entry.o /\ entry.o.scores.k = "arr"
  THEN Len(entry.o.scores.a) ELSE 0

\* "semesters" arrays of at most n entries and `budget` course entries in all;
\* ArraysByBudget(C, B, n, b)[i + 1] is SemesterArrays(C, B, n, i), for i in 0..b
RECURSIVE SemesterArrays(_, _, _, _), ArraysByBudget(_, _, _, _)
SemesterArrays(C, B, n, budget) ==
  IF n = 0 THEN {<<>>}
  ELSE LET rests == ArraysByBudget(C, B, n - 1, budget)
       IN  {<<>>} \cup
           UNION { {<<e>> \o rest : rest \in rests[budget - CoursesIn(e) + 1]} :
                   e \in SemesterEntries(C, B, budget) }

ArraysByBudget(C, B, n, b) ==
  IF b = 0 THEN <<SemesterArrays(C, B, n, 0)>>
  ELSE Append(ArraysByBudget(C, B, n, b - 1), SemesterArrays(C, B, n, b))

\* Bodies of the unfiltered request: well-formed ones, and ones the
\* extraction refuses.
GoodAllBodies ==
  { JObj([overview |-> JObj([gpa |-> JFloat(35), passedCredits |-> JUInt(120)])]),
    JObj([overview |-> JObj([gpa |-> JUInt(4), passedCredits |-> JUInt(130)])]) }

AllBodies ==
  GoodAllBodies \cup
  { BadText,
    JObj([semesters |-> JArr(<<>>)]),
    JObj([overview |-> JObj([gpa |-> JFloat(35)])]),
    JObj([overview |-> JObj([gpa |-> JFloat(35), passedCredits |-> JFloat(1200)])]),
    JObj([overview |-> JObj([gpa |-> JStr("3.5"), passedCredits |-> JUInt(120)])]) }

\* The "overview" of a filtered body, with a gpa or without one.
GoodSemOverviews == {JObj([gpa |-> JFloat(38)]), JObj([gpa |-> JFloat(35)])}
SemOverviews == GoodSemOverviews \cup {JObj([passedCredits |-> JUInt(8)])}

\* Filtered bodies of several semesters, whose course entries are well-formed
\* or have no credits, and whose semester entries may have no id.
WideSemBodies ==
  {JObj([overview |-> ov, semesters |-> JArr(a)]) :
      ov \in GoodSemOverviews,
      a \in SemesterArrays(GoodCourses \cup {CourseNoCredits},
                           {JObj([scores |-> JArr(<<>>)])},
                           MaxSems, MaxCourses)}

\* Filtered bodies of at most one semester, with every malformation drawn.
NarrowSemBodies ==
  { BadText, JObj([overview |-> JObj([gpa |-> JFloat(38)])]) }
  \cup {JObj([overview |-> ov, semesters |-> JArr(a)]) :
          ov \in SemOverviews,
          a \in SemesterArrays(CourseEntries, BrokenSemesters, 1, MaxCourses)}
  \cup {JObj([semesters |-> JArr(a)]) :
          a \in SemesterArrays(CourseEntries, BrokenSemesters, 1, 0)}
  \cup {JObj([overview |-> ov, semesters |-> JStr("none")]) : ov \in GoodSemOverviews}

\* The catalog behind the id-to-name mapping of the extraction runs
ExtractCatalog == <<Semesters(1, "2023S"), Semesters(2, "2023F")>>

\* ------------------------------------------------------- get_grade: data

Ok(x) == [k |-> "ok", v |-> x]
Err(e) == [k |-> "err", e |-> e]
Pending == [k |-> "pending"]
Running == [k |-> "running"]

\* A URL is held as its sequence of characters.
HomePat == <<"/", "h", "o", "m", "e">>

\* str::contains
Contains(hay, needle) ==
  \E i \in 1..(Len(hay) - Len(needle) + 1) :
     SubSeq(hay, i, i + Len(needle) - 1) = needle

\* LoginPassed with the slash of the pattern forgotten
LoginPassedNoSlash(url) == Contains(url, <<"h", "o", "m", "e">>)

\* lib.rs:70: the login passed when the final URL contains "/home"
LoginPassed(url) == Contains(url, HomePat)

\* Final URLs of the login exchange (the host shortened to "jw" or "p")
LoginUrls ==
  { <<"j", "w", "/", "h", "o", "m", "e">>,
    <<"j", "w", "/", "h", "o", "m", "e", "w", "o", "r", "k">>,
    <<"p", "/", "l", "o", "g", "i", "n">>,
    <<"j", "w", "/", "h", "o", "m">>,
    <<"j", "w", "h", "o", "m", "e">>,
    <<"p", "/", "l", "o", "g", "i", "n", "?", "s", "=", "/", "h", "o", "m", "e">> }

\* lib.rs:55-67: the login POST
LoginRequest ==
  [method |-> "POST", url |-> "https://passport.ustc.edu.cn/login",
   params |-> << <<"model", "uplogin.jsp">>,
                 <<"service", "https://jw.ustc.edu.cn/ucas-sso/login">>,
                 <<"warn", "">>, <<"showCode", "">>,
                 <<"username", "user">>, <<"password", "passwd">>,
                 <<"button", "">> >>]

\* lib.rs:76-78: the catalog GET
CatalogRequest ==
  [method |-> "GET", url |-> "https://jw.ustc.edu.cn/for-std/grade/sheet/getSemesters",
   params |-> <<>>]

\* lib.rs:89-96: a grade-list GET
GradeRequest(semesterIds) ==
  [method |-> "GET", url |-> "https://jw.ustc.edu.cn/for-std/grade/sheet/getGradeList",
   params |-> << <<"trainTypeId", "1">>, <<"semesterIds", semesterIds>> >>]

\* slice::contains
InList(list, x) == \E i \in 1..Len(list) : list[i] = x

\* FilterIds walking the caller's list instead of the catalog
RECURSIVE FilterIdsCallerOrder(_, _)
FilterIdsCallerOrder(sems, semesters) ==
  IF semesters = <<>> THEN <<>>
  ELSE LET ids == [i \in 1..Len(sems) |-> sems[i].id]
           hit(i) == sems[i].nameZh = Head(semesters)
       IN  SelectSeq(ids, LAMBDA x : \E i \in 1..Len(sems) : hit(i) /\ sems[i].id = x)
           \o FilterIdsCallerOrder(sems, Tail(semesters))

\* lib.rs:84-87: sems.iter().filter(|s| semesters.contains(nameZh)).map(|s| s.id)
RECURSIVE FilterIds(_, _)
FilterIds(sems, semesters) ==
  IF sems = <<>> THEN <<>>
  ELSE LET rest == FilterIds(Tail(sems), semesters)
       IN  IF InList(semesters, Head(sems).nameZh)
           THEN <<Head(sems).id>> \o rest ELSE rest

\* lib.rs:88: Itertools::join(","), each id by its Display
RECURSIVE JoinComma(_)
JoinComma(ids) ==
  IF ids = <<>> THEN ""
  ELSE IF Len(ids) = 1 THEN ToString(ids[1])
  ELSE ToString(ids[1]) \o "," \o JoinComma(Tail(ids))

\* most entries of a semester catalog
MaxCatalog == 2
\* most names in the caller's semester list
MaxCaller == 2

Names == {"2023S", "2023F"}
CatalogIds == {1, 2}
Catalogs == SeqsUpTo({Semesters(i, n) : i \in CatalogIds, n \in Names}, MaxCatalog)

\* The semester names a caller passes
CallerLists == SeqsUpTo(Names, MaxCaller)

\* What the login exchange can end in: a transport error or a final URL
LoginResponses == {Err("ReqwestError")} \cup {Ok(u) : u \in LoginUrls}

\* What the catalog exchange can end in: a transport error, a body that does
\* not deserialize into Vec<Semesters>, or a catalog
CatalogResponses ==
  {Err("ReqwestError"), Err("Deserialize")} \cup {Ok(c) : c \in Catalogs}

\* Bodies the grade-list endpoint answers with in the pipeline runs
FetchAllBodies ==
  { JObj([overview |-> JObj([gpa |-> JFloat(35), passedCredits |-> JUInt(120)])]),
    JObj([overview |-> JObj([gpa |-> JFloat(35)])]) }

FetchSemBodies ==
  { JObj([overview |-> JObj([gpa |-> JFloat(38)]),
          semesters |-> JArr(<< JObj([id |-> JUInt(2), scores |-> JArr(<<CoursePhysics>>)]),
                                JObj([id |-> JUInt(1), scores |-> JArr(<<CourseAlgebra>>)]) >>)]),
    JObj([overview |-> JObj([gpa |-> JFloat(38)]), semesters |-> JArr(<<>>)]),
    BadText }

Futures == {"all", "sem"}

\* Dropping a TryJoin drops both futures: one still in flight is cancelled.
Dropped(futs) == [f \in Futures |-> IF futs[f] = "pending" THEN "cancelled" ELSE futs[f]]

\* ------------------------------------------------------------------ state

VARIABLES
  \* extract_grade: its three arguments and its result
  allBody, semBody, semMap, extracted,
  \* get_grade: the caller's list, the place in the function, the requests
  \* issued so far, what the login and the catalog exchange ended in, the two
  \* futures of each try_join, the order they completed in, and the result
  semesters, pc, reqs, loginRes, catalogRes, sendFut, textFut, completed, ret,
  \* run and main: the place in the program, config.ustc.send_first and
  \* config.ustc.interval, the retained snapshot, the polling ticks so far and
  \* a record of the last one
  rpc, send_first, interval, old_grade, ticks, last

extractVars == <<allBody, semBody, semMap, extracted>>
fetchVars == <<semesters, pc, reqs, loginRes, catalogRes, sendFut, textFut, completed, ret>>
runVars == <<rpc, send_first, interval, old_grade, ticks, last>>
vars == <<extractVars, fetchVars, runVars>>

NewFutures == [f \in Futures |-> "new"]

\* The state of a part of the program that a specification does not run
IdleExtract ==
  /\ allBody = Pending /\ semBody = Pending /\ semMap = <<>> /\ extracted = Pending
IdleFetch ==
  /\ semesters = <<>> /\ pc = "idle" /\ reqs = <<>>
  /\ loginRes = Pending /\ catalogRes = Pending
  /\ sendFut = NewFutures /\ textFut = NewFutures /\ completed = <<>>
  /\ ret = Running
IdleRun ==
  /\ rpc = "idle" /\ send_first = FALSE /\ interval = [inf |-> FALSE, m |-> 1, e |-> 1]
  /\ old_grade = None /\ ticks = 0
  /\ last = [kind |-> "none"]

\* ------------------------------------------- extract_grade on drawn inputs

InitExtract ==
  /\ \/ allBody \in AllBodies /\ semBody \in NarrowSemBodies
     \/ allBody \in GoodAllBodies /\ semBody \in WideSemBodies
  /\ semMap = SemMap(ExtractCatalog)
  /\ extracted = Pending
  /\ IdleFetch /\ IdleRun

\* lib.rs:103: the call extract_grade(all, sem, sem_map)
Extract ==
  /\ extracted.k = "pending"
  /\ extracted' = extract_grade(allBody, semBody, semMap)
  /\ UNCHANGED <<allBody, semBody, semMap, fetchVars, runVars>>

NextExtract == Extract

SpecExtract == InitExtract /\ [][NextExtract]_vars

\* -------------------------------------------------------------- get_grade

\* lib.rs:48: a call get_grade(user, passwd, semesters)
Init ==
  /\ semesters \in CallerLists
  /\ pc = "start" /\ reqs = <<>>
  /\ loginRes = Pending /\ catalogRes = Pending
  /\ sendFut = NewFutures /\ textFut = NewFutures /\ completed = <<>>
  /\ ret = Running
  /\ IdleExtract /\ IdleRun

\* lib.rs:49-52: the client is built; `?` returns the builder's error before
\* any request is made
ClientBuild ==
  /\ pc = "start"
  /\ \E built \in BOOLEAN :
       IF built THEN pc' = "client" /\ ret' = ret
       ELSE pc' = "done" /\ ret' = Err("ReqwestError")
  /\ UNCHANGED <<semesters, reqs, loginRes, catalogRes, sendFut, textFut, completed,
                 extractVars, runVars>>

\* lib.rs:55-68: the login POST is sent
LoginSend ==
  /\ pc = "client"
  /\ reqs' = Append(reqs, LoginRequest)
  /\ pc' = "login"
  /\ UNCHANGED <<semesters, loginRes, catalogRes, sendFut, textFut, completed, ret,
                 extractVars, runVars>>

\* lib.rs:69-73: the login exchange ends; `?` and the /home test
LoginDone ==
  /\ pc = "login"
  /\ \E resp \in LoginResponses :
       /\ loginRes' = resp
       /\ IF resp.k = "err" THEN pc' = "done" /\ ret' = Err("ReqwestError")
          ELSE IF ~LoginPassed(resp.v) THEN pc' = "done" /\ ret' = Err("JWLoginFailed")
          ELSE pc' = "logined" /\ ret' = ret
  /\ UNCHANGED <<semesters, reqs, catalogRes, sendFut, textFut, completed,
                 extractVars, runVars>>

\* lib.rs:76-78: the catalog GET is sent
CatalogSend ==
  /\ pc = "logined"
  /\ reqs' = Append(reqs, CatalogRequest)
  /\ pc' = "semesters"
  /\ UNCHANGED <<semesters, loginRes, catalogRes, sendFut, textFut, completed, ret,
                 extractVars, runVars>>

\* lib.rs:79-82: the catalog exchange ends and res.json() deserializes it
CatalogDone ==
  /\ pc = "semesters"
  /\ \E resp \in CatalogResponses :
       /\ catalogRes' = resp
       /\ IF resp.k = "err" THEN pc' = "done" /\ ret' = Err("ReqwestError")
          ELSE pc' = "semesters_get" /\ ret' = ret
  /\ UNCHANGED <<semesters, reqs, loginRes, sendFut, textFut, completed,
                 extractVars, runVars>>

\* lib.rs:84-98: the ids are joined, both grade-list requests are built and
\* the first poll of try_join starts them, `all` first
GradeSend ==
  /\ pc = "semesters_get"
  /\ LET ids == JoinComma(FilterIds(catalogRes.v, semesters))
     IN  reqs' = reqs \o <<GradeRequest(""), GradeRequest(ids)>>
  /\ sendFut' = [f \in Futures |-> "pending"]
  /\ pc' = "join_send"
  /\ UNCHANGED <<semesters, loginRes, catalogRes, textFut, completed, ret,
                 extractVars, runVars>>

\* One of the two requests ends, with a response or with a transport error.
SendComplete ==
  /\ pc = "join_send"
  /\ \E f \in Futures, outcome \in {"ok", "err"} :
       /\ sendFut[f] = "pending"
       /\ sendFut' = [sendFut EXCEPT ![f] = outcome]
       /\ completed' = Append(completed, <<"send", f>>)
  /\ UNCHANGED <<semesters, pc, reqs, loginRes, catalogRes, textFut, ret,
                 extractVars, runVars>>

\* lib.rs:98: a poll of try_join finds an error: `?` returns it and the
\* TryJoin is dropped with whatever the other future was doing
JoinSendErr ==
  /\ pc = "join_send"
  /\ \E f \in Futures : sendFut[f] = "err"
  /\ sendFut' = Dropped(sendFut)
  /\ pc' = "done"
  /\ ret' = Err("ReqwestError")
  /\ UNCHANGED <<semesters, reqs, loginRes, catalogRes, textFut, completed,
                 extractVars, runVars>>

\* JoinSendOk going on as soon as one response is there (a select for a join)
JoinSendAny ==
  /\ pc = "join_send"
  /\ \E f \in Futures : sendFut[f] = "ok"
  /\ textFut' = [f \in Futures |-> "pending"]
  /\ pc' = "join_text"
  /\ UNCHANGED <<semesters, reqs, loginRes, catalogRes, sendFut, completed, ret,
                 extractVars, runVars>>

\* lib.rs:98-99: a poll of try_join finds both responses; the bodies are
\* read next, again under try_join
JoinSendOk ==
  /\ pc = "join_send"
  /\ \A f \in Futures : sendFut[f] = "ok"
  /\ textFut' = [f \in Futures |-> "pending"]
  /\ pc' = "join_text"
  /\ UNCHANGED <<semesters, reqs, loginRes, catalogRes, sendFut, completed, ret,
                 extractVars, runVars>>

\* One of the two bodies is read to its end, or the read fails.
TextComplete ==
  /\ pc = "join_text"
  /\ \/ /\ textFut.all = "pending"
        /\ \/ \E body \in FetchAllBodies :
                 /\ allBody' = body
                 /\ textFut' = [textFut EXCEPT !.all = "ok"]
           \/ /\ textFut' = [textFut EXCEPT !.all = "err"]
              /\ allBody' = allBody
        /\ completed' = Append(completed, <<"text", "all">>)
        /\ semBody' = semBody
     \/ /\ textFut.sem = "pending"
        /\ \/ \E body \in FetchSemBodies :
                 /\ semBody' = body
                 /\ textFut' = [textFut EXCEPT !.sem = "ok"]
           \/ /\ textFut' = [textFut EXCEPT !.sem = "err"]
              /\ semBody' = semBody
        /\ completed' = Append(completed, <<"text", "sem">>)
        /\ allBody' = allBody
  /\ UNCHANGED <<semesters, pc, reqs, loginRes, catalogRes, sendFut, ret,
                 semMap, extracted, runVars>>

\* lib.rs:99: a poll of the second try_join finds an error
JoinTextErr ==
  /\ pc = "join_text"
  /\ \E f \in Futures : textFut[f] = "err"
  /\ textFut' = Dropped(textFut)
  /\ pc' = "done"
  /\ ret' = Err("ReqwestError")
  /\ UNCHANGED <<semesters, reqs, loginRes, catalogRes, sendFut, completed,
                 extractVars, runVars>>

\* JoinTextOk going on as soon as one body is there
JoinTextAny ==
  /\ pc = "join_text"
  /\ \E f \in Futures : textFut[f] = "ok"
  /\ semMap' = SemMap(catalogRes.v)
  /\ extracted' = extract_grade(allBody, semBody, semMap')
  /\ ret' = IF IsNone(extracted') THEN Err("GradeMalformed") ELSE Ok(extracted'.v)
  /\ pc' = "done"
  /\ UNCHANGED <<semesters, reqs, loginRes, catalogRes, sendFut, textFut, completed,
                 allBody, semBody, runVars>>

\* lib.rs:99-103: both bodies are there; the mapping is built, the grade is
\* extracted and get_grade returns
JoinTextOk ==
  /\ pc = "join_text"
  /\ \A f \in Futures : textFut[f] = "ok"
  /\ semMap' = SemMap(catalogRes.v)
  /\ extracted' = extract_grade(allBody, semBody, semMap')
  /\ ret' = IF IsNone(extracted') THEN Err("GradeMalformed") ELSE Ok(extracted'.v)
  /\ pc' = "done"
  /\ UNCHANGED <<semesters, reqs, loginRes, catalogRes, sendFut, textFut, completed,
                 allBody, semBody, runVars>>

Next ==
  \/ ClientBuild
  \/ LoginSend \/ LoginDone \/ CatalogSend \/ CatalogDone \/ GradeSend
  \/ SendComplete \/ JoinSendErr \/ JoinSendOk
  \/ TextComplete \/ JoinTextErr \/ JoinTextOk

Spec == Init /\ [][Next]_vars

\* ----------------------------------------------------------- run and main

\* most polling ticks of a run
MaxTicks == 3

\* Pairs of bodies behind the grades the polling runs fetch: a base pair and
\* pairs that change one thing in it.
RunSemBody(gpa, sems) == JObj([overview |-> JObj([gpa |-> JFloat(gpa)]), semesters |-> JArr(sems)])
RunAllBody(gpa, credits) ==
  JObj([overview |-> JObj([gpa |-> JFloat(gpa), passedCredits |-> JUInt(credits)])])
RunSemester(id, courses) == JObj([id |-> JUInt(id), scores |-> JArr(courses)])
CourseAlgebraB ==
  JObj([courseNameCh |-> JStr("Algebra"), scoreCh |-> JStr("B"), credits |-> JFloat(40)])

RunBodies ==
  LET base == <<RunSemester(1, <<CourseAlgebra, CoursePhysics>>), RunSemester(2, <<>>)>>
  IN  { <<RunAllBody(35, 120), RunSemBody(38, base)>>,
        <<RunAllBody(36, 120), RunSemBody(38, base)>>,
        <<RunAllBody(35, 124), RunSemBody(38, base)>>,
        <<RunAllBody(35, 120), RunSemBody(39, base)>>,
        <<RunAllBody(35, 120),
          RunSemBody(38, <<RunSemester(1, <<CourseAlgebraB, CoursePhysics>>), RunSemester(2, <<>>)>>)>>,
        <<RunAllBody(35, 120),
          RunSemBody(38, <<RunSemester(1, <<CoursePhysics, CourseAlgebra>>), RunSemester(2, <<>>)>>)>>,
        <<RunAllBody(35, 120),
          RunSemBody(38, <<RunSemester(2, <<>>), RunSemester(1, <<CourseAlgebra, CoursePhysics>>)>>)>>,
        <<RunAllBody(35, 120), RunSemBody(38, <<RunSemester(3, <<>>)>>)>> }

\* What get_grade returns: one of its errors, or the grade extracted from the
\* bodies of that call
FetchResults ==
  {Err("JWLoginFailed"), Err("ReqwestError")}
  \cup { LET g == extract_grade(b[1], b[2], SemMap(ExtractCatalog))
         IN  IF IsNone(g) THEN Err("GradeMalformed") ELSE Ok(g.v) : b \in RunBodies }

\* The call did not return: the thread panicked in it.
Panicked == [k |-> "panic"]
\* The call was not reached.
NotCalled == [k |-> "notcalled"]

\* lib.rs:146-150: blocking::get_grade. Runtime::new().expect(..) panics when
\* the runtime cannot be created; otherwise block_on returns what get_grade
\* returns.
BlockingOutcomes == FetchResults \cup {Panicked}

\* config.ustc.interval, an f64 of minutes: infinite, or m * 10^e with one
\* digit m
Minutes(m, e) == [inf |-> FALSE, m |-> m, e |-> e]
InfiniteMinutes == [inf |-> TRUE, m |-> 0, e |-> 0]
Intervals ==
  {Minutes(5, 0), Minutes(1, 1), Minutes(3, 17), Minutes(4, 17), Minutes(1, 18),
   InfiniteMinutes}

\* main.rs:77-81: get_config accepts an interval >= 10.
IntervalAccepted(i) == i.inf \/ i.e >= 1

\* main.rs:132: Duration::from_secs_f64(60. * interval) panics when the
\* seconds are not finite or reach 2^64 (18446744073709551616), that is from
\* 307445734561825861 minutes on.
SleepPanics(i) == i.inf \/ i.e > 17 \/ (i.e = 17 /\ i.m >= 4)

\* main.rs:146: old_grade != grade, the inequality of two Grade values
GradeNe(a, b) == a # b

\* ShouldReport without the comparison
ShouldReportAny(old, res) == res.k = "ok"

\* main.rs:134-146: a tick reports a grade when the call returned one and it
\* is not equal to the retained one
ShouldReport(old, res) == res.k = "ok" /\ GradeNe(old, res.v)

\* Retained with the assignment moved before the send
RetainedAlways(old, grade, reportSent) == grade

\* main.rs:150-159: the retained grade after a report that was sent or not
Retained(old, grade, reportSent) == IF reportSent THEN grade ELSE old

\* AfterErrorMail with a return for the `continue`
AfterErrorMailReturn(sent) == "run_err"

\* main.rs:138-143 and 152-157: after the "Get Grade Error" email, `?`
\* returns from run when it was not sent, `continue` goes on when it was
AfterErrorMail(sent) == IF sent THEN "loop" ELSE "run_err"

Mail(subject, sent) == [subject |-> subject, sent |-> sent]

\* main.rs:257-265: main called run with a configuration get_config accepted
InitRun ==
  /\ rpc = "first"
  /\ send_first \in BOOLEAN
  /\ interval \in {i \in Intervals : IntervalAccepted(i)}
  /\ old_grade = None
  /\ ticks = 0
  /\ last = [kind |-> "none"]
  /\ IdleExtract /\ IdleFetch

\* main.rs:122-128: the first fetch, whose error ends run, and the first report
FirstRun ==
  /\ rpc = "first"
  /\ \E res \in BlockingOutcomes :
       IF res.k = "panic"
       THEN /\ rpc' = "panic"
            /\ old_grade' = old_grade
            /\ last' = [kind |-> "first", fetched |-> res, before |-> old_grade, mails |-> <<>>]
       ELSE IF res.k = "err"
       THEN /\ rpc' = "run_err"
            /\ old_grade' = old_grade
            /\ last' = [kind |-> "first", fetched |-> res, before |-> old_grade, mails |-> <<>>]
       ELSE /\ old_grade' = Some(res.v)
            /\ IF send_first
               THEN \E sent \in BOOLEAN :
                      /\ rpc' = IF sent THEN "loop" ELSE "run_err"
                      /\ last' = [kind |-> "first", fetched |-> res, before |-> old_grade,
                                  mails |-> <<Mail("Grade Report", sent)>>]
               ELSE /\ rpc' = "loop"
                    /\ last' = [kind |-> "first", fetched |-> res, before |-> old_grade,
                                mails |-> <<>>]
  /\ UNCHANGED <<send_first, interval, ticks, extractVars, fetchVars>>

\* main.rs:130-161: one iteration of the loop, from its sleep to its end; a
\* panic of the sleep or of the call ends the process there
Tick ==
  /\ rpc = "loop"
  /\ ticks < MaxTicks
  /\ ticks' = ticks + 1
  /\ IF SleepPanics(interval)
     THEN /\ rpc' = "panic"
          /\ old_grade' = old_grade
          /\ last' = [kind |-> "tick", fetched |-> NotCalled, before |-> old_grade,
                      mails |-> <<>>]
     ELSE
     \E res \in BlockingOutcomes :
       IF res.k = "panic"
       THEN /\ rpc' = "panic"
            /\ old_grade' = old_grade
            /\ last' = [kind |-> "tick", fetched |-> res, before |-> old_grade, mails |-> <<>>]
       ELSE IF res.k = "err"
       THEN \E sent \in BOOLEAN :
              /\ rpc' = AfterErrorMail(sent)
              /\ old_grade' = old_grade
              /\ last' = [kind |-> "tick", fetched |-> res, before |-> old_grade,
                          mails |-> <<Mail("Get Grade Error", sent)>>]
       ELSE IF ShouldReport(old_grade.v, res)
       THEN \E sent \in BOOLEAN :
              /\ old_grade' = Some(Retained(old_grade.v, res.v, sent))
              /\ IF sent
                 THEN /\ rpc' = "loop"
                      /\ last' = [kind |-> "tick", fetched |-> res, before |-> old_grade,
                                  mails |-> <<Mail("Grade Report", TRUE)>>]
                 ELSE \E sent2 \in BOOLEAN :
                        /\ rpc' = AfterErrorMail(sent2)
                        /\ last' = [kind |-> "tick", fetched |-> res, before |-> old_grade,
                                    mails |-> <<Mail("Grade Report", FALSE),
                                                Mail("Get Grade Error", sent2)>>]
       ELSE /\ rpc' = "loop"
            /\ old_grade' = old_grade
            /\ last' = [kind |-> "tick", fetched |-> res, before |-> old_grade, mails |-> <<>>]
  /\ UNCHANGED <<send_first, interval, extractVars, fetchVars>>

\* main.rs:265-274: run returned an error; main mails it and the process
\* ends, by exit(1) or by the panic of unwrap
MainErr ==
  /\ rpc = "run_err"
  /\ \E sent \in BOOLEAN : rpc' = IF sent THEN "exit" ELSE "panic"
  /\ UNCHANGED <<send_first, interval, old_grade, ticks, last, extractVars, fetchVars>>

NextRun == FirstRun \/ Tick \/ MainErr

SpecRun == InitRun /\ [][NextRun]_vars

\* ------------------------------------------------------------- properties

\* The value of a query parameter of a request
Param(req, key) ==
  LET i == CHOOSE i \in 1..Len(req.params) : req.params[i][1] = key
  IN  req.params[i][2]

IsGradeRequest(req) ==
  req.url = "https://jw.ustc.edu.cn/for-std/grade/sheet/getGradeList"

GradeReturned == ret.k = "ok" \/ (ret.k = "err" /\ ret.e = "GradeMalformed")

\* C1: when the final URL of the login response does not contain "/home",
\* get_grade has returned JWLoginFailed and the login POST is the only
\* request it issued.
C1_LoginGate ==
  (loginRes.k = "ok" /\ ~Contains(loginRes.v, HomePat))
    => /\ pc = "done"
       /\ ret.k = "err" /\ ret.e = "JWLoginFailed"
       /\ reqs = <<LoginRequest>>

C1_Witness ==
  /\ loginRes.k = "ok" /\ loginRes.v = <<"j", "w", "h", "o", "m", "e">>
  /\ pc = "done" /\ ret.k = "err"

\* C2 as claimed: once get_grade has gone past a try_join or has returned,
\* both futures of that join have completed, with success or with failure.
C2_BothCompleted ==
  /\ (pc \in {"join_text", "done"} /\ sendFut.all # "new")
       => \A f \in Futures : sendFut[f] \in {"ok", "err"}
  /\ (pc = "done" /\ textFut.all # "new")
       => \A f \in Futures : textFut[f] \in {"ok", "err"}

\* C2 as amended: get_grade goes past a try_join only when both futures have
\* succeeded; it returns the error as soon as a poll finds one failed, and the
\* other, when still in flight, is cancelled by the drop: none is left
\* running after the return, and a failure of either makes get_grade fail.
C2_JoinedOrCancelled ==
  /\ (pc = "join_text" \/ textFut.all # "new") => \A f \in Futures : sendFut[f] = "ok"
  /\ GradeReturned => \A f \in Futures : textFut[f] = "ok"
  /\ pc = "done" => \A f \in Futures : sendFut[f] # "pending" /\ textFut[f] # "pending"
  /\ (\E f \in Futures : sendFut[f] = "err" \/ textFut[f] = "err")
       => (pc # "done" \/ (ret.k = "err" /\ ret.e = "ReqwestError"))
  /\ (\E f \in Futures : sendFut[f] = "cancelled" \/ textFut[f] = "cancelled")
       => (pc = "done" /\ ret.k = "err")

C2_Witness ==
  /\ pc = "done" /\ ret.k = "err"
  /\ sendFut.all = "err" /\ sendFut.sem = "cancelled"

\* C3: the catalog GET is issued only after the login POST ended in a URL
\* with "/home"; a grade-list GET only after the catalog was received and
\* deserialized; a body is read only after both responses are there; and the
\* extraction runs only after both bodies were read.
C3_StageOrder ==
  /\ \A i \in 1..Len(reqs) :
       /\ reqs[i] = LoginRequest => i = 1
       /\ reqs[i] = CatalogRequest
            => /\ i = 2 /\ reqs[1] = LoginRequest
               /\ loginRes.k = "ok" /\ Contains(loginRes.v, HomePat)
       /\ IsGradeRequest(reqs[i])
            => /\ i > 2 /\ reqs[2] = CatalogRequest
               /\ catalogRes.k = "ok"
  /\ \A i \in 1..Len(completed) :
       completed[i][1] = "text"
         => \A f \in Futures : \E j \in 1..(i - 1) : completed[j] = <<"send", f>>
  /\ (extracted.k # "pending" \/ GradeReturned)
       => /\ \A f \in Futures : sendFut[f] = "ok" /\ textFut[f] = "ok"
          /\ \A f \in Futures : \E j \in 1..Len(completed) : completed[j] = <<"text", f>>

\* A run in which the filtered request, issued second, completed first.
C3_Witness ==
  /\ ret.k = "ok" /\ Len(reqs) = 4
  /\ completed = << <<"send", "sem">>, <<"send", "all">>, <<"text", "sem">>, <<"text", "all">> >>

\* A "semesters" entry that resolves, and a course entry that is complete
ResolvableSemester(s, map) ==
  /\ s.k = "obj" /\ "id" \in DOMAIN s.o
  /\ s.o.id.k = "num" /\ s.o.id.kind = "u64" /\ s.o.id.n \in DOMAIN map
  /\ "scores" \in DOMAIN s.o /\ s.o.scores.k = "arr"
CompleteCourse(c) ==
  /\ c.k = "obj" /\ {"courseNameCh", "scoreCh", "credits"} \subseteq DOMAIN c.o
  /\ c.o.courseNameCh.k = "str" /\ c.o.scoreCh.k = "str" /\ c.o.credits.k = "num"

HasSemesters(body) ==
  body.k = "obj" /\ "semesters" \in DOMAIN body.o /\ body.o.semesters.k = "arr"

\* C4: extract_grade returns a Grade only if every semester entry of the
\* filtered payload resolves through the mapping and every course entry of
\* every semester is complete; the Grade then has one pair per semester entry
\* and one triple per course entry, so a malformed entry is never dropped.
C4_AllOrNothing ==
  extracted.k = "some"
    => /\ HasSemesters(semBody)
       /\ LET arr == semBody.o.semesters.a
          IN  /\ Len(extracted.v.scores) = Len(arr)
              /\ \A i \in 1..Len(arr) :
                   /\ ResolvableSemester(arr[i], semMap)
                   /\ \A j \in 1..Len(arr[i].o.scores.a) : CompleteCourse(arr[i].o.scores.a[j])
                   /\ Len(extracted.v.scores[i][2]) = Len(arr[i].o.scores.a)

\* A payload with a complete course and one without credits in one semester,
\* refused as a whole.
C4_Witness ==
  /\ extracted.k = "none"
  /\ allBody \in GoodAllBodies
  /\ HasSemesters(semBody)
  /\ \E i \in 1..Len(semBody.o.semesters.a) :
       /\ ResolvableSemester(semBody.o.semesters.a[i], semMap)
       /\ semBody.o.semesters.a[i].o.scores.a = <<CourseAlgebra, CourseNoCredits>>

\* The number a JSON number stands for, in tenths
Tenths(num) == IF num.kind = "f64" THEN num.n ELSE 10 * num.n

\* C5: on success gpa and credits are overview.gpa and overview.passedCredits
\* of the unfiltered payload and sem_gpa is overview.gpa of the filtered one;
\* when the two overview.gpa differ, so do gpa and sem_gpa.
C5_FieldSeparation ==
  extracted.k = "some"
    => /\ extracted.v.gpa = Tenths(allBody.o.overview.o.gpa)
       /\ extracted.v.credits = allBody.o.overview.o.passedCredits.n
       /\ extracted.v.sem_gpa = Tenths(semBody.o.overview.o.gpa)
       /\ Tenths(allBody.o.overview.o.gpa) # Tenths(semBody.o.overview.o.gpa)
            => extracted.v.gpa # extracted.v.sem_gpa

C5_Witness ==
  /\ extracted.k = "some"
  /\ allBody.o.overview.o.gpa = JFloat(35) /\ semBody.o.overview.o.gpa = JFloat(38)
  /\ extracted.v.gpa = 35 /\ extracted.v.sem_gpa = 38 /\ extracted.v.credits = 120

\* C6: on success scores has one pair per entry of the filtered payload's
\* "semesters" array, in that order, named through the mapping, and each
\* pair's course list follows the entry's "scores" array.
C6_OrderPreserved ==
  extracted.k = "some"
    => LET arr == semBody.o.semesters.a
           scores == extracted.v.scores
       IN  /\ Len(scores) = Len(arr)
           /\ \A i \in 1..Len(arr) :
                LET courses == arr[i].o.scores.a
                IN  /\ scores[i][1] = semMap[arr[i].o.id.n]
                    /\ Len(scores[i][2]) = Len(courses)
                    /\ \A j \in 1..Len(courses) :
                         scores[i][2][j] = <<courses[j].o.courseNameCh.s,
                                             courses[j].o.scoreCh.s,
                                             Tenths(courses[j].o.credits)>>

\* A payload that lists semester 2 before semester 1, Physics before Algebra.
C6_Witness ==
  /\ extracted.k = "some"
  /\ Len(extracted.v.scores) = 2
  /\ extracted.v.scores[1][1] = "2023F" /\ extracted.v.scores[2][1] = "2023S"
  /\ Len(extracted.v.scores[1][2]) = 2
  /\ extracted.v.scores[1][2][1][1] = "Physics" /\ extracted.v.scores[1][2][2][1] = "Algebra"

FetchFailedOnTick == last.kind = "tick" /\ last.fetched.k = "err"

\* C7 as claimed: after a failed fetch on a polling tick the loop goes on,
\* whatever became of the report of the failure.
C7_LoopGoesOn == FetchFailedOnTick => rpc = "loop"

\* C7 as amended: a fetch that returns an error on a polling tick is
\* reported by one "Get Grade Error" email and leaves the retained grade
\* alone; the loop goes on to its next sleep, which does not panic, when that
\* email was sent, and when it was not, run returns the error and the process
\* ends. A tick whose sleep or whose call panics ends the process with no
\* email at all.
C7_LoopGoesOnIfReported ==
  /\ FetchFailedOnTick
       => /\ Len(last.mails) = 1
          /\ last.mails[1].subject = "Get Grade Error"
          /\ old_grade = last.before
          /\ ~SleepPanics(interval)
          /\ last.mails[1].sent => rpc = "loop"
          /\ ~last.mails[1].sent => rpc \in {"run_err", "exit", "panic"}
  /\ (last.kind = "tick" /\ last.fetched.k \in {"panic", "notcalled"})
       => /\ rpc = "panic" /\ last.mails = <<>> /\ old_grade = last.before
          /\ last.fetched.k = "notcalled" <=> SleepPanics(interval)

C7_Witness ==
  /\ FetchFailedOnTick /\ ticks > 1
  /\ last.mails[1].sent /\ rpc = "loop"

\* Two grades differ in a field
Differs(a, b) ==
  \/ a.gpa # b.gpa \/ a.sem_gpa # b.sem_gpa
  \/ a.credits # b.credits \/ a.scores # b.scores

ReportTried == \E i \in 1..Len(last.mails) : last.mails[i].subject = "Grade Report"
ReportSent ==
  \E i \in 1..Len(last.mails) :
     last.mails[i].subject = "Grade Report" /\ last.mails[i].sent

\* C8: on a polling tick a "Grade Report" is sent off exactly when the fetch
\* returned a grade that differs from the retained one in gpa, sem_gpa,
\* credits or scores.
C8_ReportIffDiffers ==
  last.kind = "tick"
    => (ReportTried <=> (last.fetched.k = "ok" /\ Differs(last.before.v, last.fetched.v)))

\* A tick whose grade differs from the retained one in its scores only.
C8_Witness ==
  /\ last.kind = "tick" /\ last.fetched.k = "ok" /\ ReportTried
  /\ last.before.v.gpa = last.fetched.v.gpa
  /\ last.before.v.sem_gpa = last.fetched.v.sem_gpa
  /\ last.before.v.credits = last.fetched.v.credits
  /\ last.before.v.scores # last.fetched.v.scores
  /\ Len(last.before.v.scores) = Len(last.fetched.v.scores)

\* The ids of the catalog entries whose name the caller listed, by their
\* place in the catalog, and their joined text
ExpectedIds(catalog, names) ==
  LET picked == {i \in 1..Len(catalog) : \E j \in 1..Len(names) : names[j] = catalog[i].nameZh}
      n == Cardinality(picked)
      at == CHOOSE g \in [1..n -> picked] : \A a, b \in 1..n : a < b => g[a] < g[b]
  IN  [x \in 1..n |-> catalog[at[x]].id]

RECURSIVE JoinedFromLeft(_, _)
JoinedFromLeft(ids, n) ==
  IF n = 0 THEN ""
  ELSE IF n = 1 THEN ToString(ids[1])
  ELSE JoinedFromLeft(ids, n - 1) \o "," \o ToString(ids[n])

\* C9: the filtered grade-list request carries as semesterIds the ids of the
\* catalog entries whose nameZh is in the caller's list, in catalog order and
\* joined by commas; the unfiltered one carries an empty semesterIds; the two
\* are the same request in everything else.
C9_FilterIds ==
  sendFut.all # "new"
    => /\ Len(reqs) = 4
       /\ IsGradeRequest(reqs[3]) /\ IsGradeRequest(reqs[4])
       /\ Param(reqs[3], "semesterIds") = ""
       /\ LET ids == ExpectedIds(catalogRes.v, semesters)
          IN  Param(reqs[4], "semesterIds") = JoinedFromLeft(ids, Len(ids))
       /\ reqs[3].method = reqs[4].method /\ reqs[3].url = reqs[4].url
       /\ Len(reqs[3].params) = Len(reqs[4].params)
       /\ \A i \in 1..Len(reqs[3].params) :
            /\ reqs[3].params[i][1] = reqs[4].params[i][1]
            /\ reqs[3].params[i][1] # "semesterIds" => reqs[3].params[i] = reqs[4].params[i]

\* The caller lists 2023F before 2023S; the catalog has them the other way.
C9_Witness ==
  /\ sendFut.all # "new"
  /\ semesters = <<"2023F", "2023S">>
  /\ catalogRes.v = <<Semesters(1, "2023S"), Semesters(2, "2023F")>>
  /\ Param(reqs[4], "semesterIds") = "1,2"

\* C10: on a polling tick the retained grade is replaced only when the fetch
\* returned a grade that differs from it and the "Grade Report" was sent, and
\* then by that grade; after a failed fetch, an equal grade or a report that
\* was not sent it is the grade of before, so that the same fetched grade
\* still differs from it.
C10_RetainedFrame ==
  last.kind = "tick"
    => /\ old_grade # last.before
            => /\ last.fetched.k = "ok"
               /\ Differs(last.before.v, last.fetched.v)
               /\ ReportSent
       /\ ReportSent => old_grade = Some(last.fetched.v)
       /\ ~ReportSent => old_grade = last.before
       /\ (ReportTried /\ ~ReportSent) => Differs(old_grade.v, last.fetched.v)

\* A tick whose report was not sent, after which the loop goes on.
C10_Witness ==
  /\ last.kind = "tick" /\ rpc = "loop"
  /\ ReportTried /\ ~ReportSent
  /\ old_grade = last.before

====
